---- MODULE Spec2Model ----
(***************************************************************************)
(* Model of tokio-copy-with-buffer (src/src/lib.rs): the future `Copy`     *)
(* created by `copy_with_buffer`, and its `poll` method.                   *)
(*                                                                         *)
(* The reader and the writer are the environment: every call of read,      *)
(* write and flush answers with one of the outcomes the AsyncRead /        *)
(* AsyncWrite contracts allow (a count, WouldBlock, another error).        *)
(* `poll` is a public method with no guard of its own, so the model lets   *)
(* the caller invoke it at any time, also after it returned a result.      *)
(*                                                                         *)
(* One poll is a walk through the loop of lines 82-121; pc is the line     *)
(* the walk is at ("idle" outside poll).  amt is a u64 in the source; the  *)
(* bounds below keep it far from 2^64, so it is modelled without wrap.     *)
(***************************************************************************)
EXTENDS Integers, Sequences, FiniteSets, TLC

\* Bounds of the model.
MaxSrc == 3       \* the source holds up to MaxSrc bytes
MaxBuf == 2       \* the caller's buffer holds up to MaxBuf bytes
MaxPolls == 4     \* the caller polls up to MaxPolls times

\* io::Error kinds other than WouldBlock that the reader and writer raise.
Errs == {"E1", "E2"}
\* io::ErrorKind::WriteZero, raised by poll itself (line 103).
WriteZeroErr == "WriteZero"

Ops == {"read", "write", "flush"}
Res == {"Ok", "WouldBlock", "Err"}

VARIABLES
    src,        \* environment: all the bytes the source yields before EOF
    rd,         \* environment: how many of them the reader has delivered
    sunk,       \* environment: the bytes the writer has accepted, in order
    reader,     \* Copy.reader: "Some" or "None"
    writer,     \* Copy.writer: "Some" or "None"
    buffer,     \* Copy.buffer: "Some" or "None"
    buf,        \* the contents of the boxed slice
    read_done,  \* Copy.read_done
    pos,        \* Copy.pos
    cap,        \* Copy.cap
    amt,        \* Copy.amt
    pc,         \* position of the running poll: "idle", "refill", "drain", "finish"
    ret,        \* what the last finished poll returned
    log,        \* history: the I/O calls of the current (or last) poll
    last,       \* history: the last I/O call of the task
    calls,      \* history: number of calls per operation and kind of outcome
    results,    \* history: number of Ok and of Err results returned by poll
    entry,      \* history: pos, cap, read_done, amt at the entry of the poll
    polls,      \* history: number of polls started
    iter_io,    \* history: number of I/O calls in the current loop iteration
    rogue       \* environment: a read or write has returned a count larger
                \* than the slice it was given

vars == <<src, rd, sunk, reader, writer, buffer, buf, read_done, pos, cap,
          amt, pc, ret, log, last, calls, results, entry, polls, iter_io,
          rogue>>

env == <<src, rd, sunk, rogue>>
owned == <<reader, writer, buffer>>
fields == <<read_done, pos, cap, amt>>

Min(a, b) == IF a < b THEN a ELSE b

\* The source with n bytes: distinct bytes, so any loss, repetition or
\* reordering shows in the sink.
Data(n) == [i \in 1..n |-> i]
\* A caller's buffer of n bytes, zeroed as in `copy` (line 51).
Zeroed(n) == [i \in 1..n |-> 0]

\* Outcomes of an I/O call, as they are logged.
IoOk(n) == [res |-> "Ok", n |-> n, err |-> ""]
IoWouldBlock == [res |-> "WouldBlock", n |-> 0, err |-> ""]
IoErr(e) == [res |-> "Err", n |-> 0, err |-> e]
NoIo == [op |-> "none", res |-> "none", n |-> 0, err |-> ""]

\* Values of Poll<(u64, R, W, Box<[u8]>), io::Error>; gave tells whether the
\* value carries the reader, the writer and the buffer.
NotReady == [kind |-> "NotReady", amt |-> 0, err |-> "", gave |-> FALSE]
RetErr(e) == [kind |-> "Err", amt |-> 0, err |-> e, gave |-> FALSE]
RetOk(a) == [kind |-> "Ok", amt |-> a, err |-> "", gave |-> TRUE]
Panicked == [kind |-> "Panic", amt |-> 0, err |-> "", gave |-> FALSE]
NoRet == [kind |-> "none", amt |-> 0, err |-> "", gave |-> FALSE]

Saved == [pos |-> pos, cap |-> cap, read_done |-> read_done, amt |-> amt]

\* copy_with_buffer: the fields after construction; no I/O has happened.
Init ==
    /\ src \in {Data(n) : n \in 0..MaxSrc}
    /\ buf \in {Zeroed(n) : n \in 0..MaxBuf}
    /\ rd = 0
    /\ sunk = <<>>
    /\ reader = "Some"
    /\ writer = "Some"
    /\ buffer = "Some"
    /\ read_done = FALSE
    /\ pos = 0
    /\ cap = 0
    /\ amt = 0
    /\ pc = "idle"
    /\ ret = NoRet
    /\ log = <<>>
    /\ last = NoIo
    /\ calls = [o \in Ops |-> [r \in Res |-> 0]]
    /\ results = [ok |-> 0, err |-> 0]
    /\ entry = [pos |-> 0, cap |-> 0, read_done |-> FALSE, amt |-> 0]
    /\ polls = 0
    /\ iter_io = 0
    /\ rogue = FALSE

\* Variant of NeedRefill: the test `pos == cap` is left out.
NeedRefill_Always == ~read_done

\* Variant of NeedRefill: the test of read_done is left out.
NeedRefill_Empty == pos = cap

\* Line 85: the buffer is empty and EOF has not been seen.
NeedRefill == pos = cap /\ ~read_done

\* Variant of HasData: `<=` written for `<`.
HasData_OrEmpty == pos <= cap

\* Line 98: the buffer has data to write.
HasData == pos < cap

\* Variant of Finished: the test of read_done is left out.
Finished_Drained == pos = cap

\* Line 114: everything is written and EOF has been seen.
Finished == pos = cap /\ read_done

\* Variant of AfterRead: pos is not set back to 0 (line 92 left out).
AfterRead_KeepPos(n) ==
    IF n = 0
    THEN [pos |-> pos, cap |-> cap, read_done |-> TRUE]
    ELSE [pos |-> pos, cap |-> n, read_done |-> read_done]

\* Variant of AfterRead: `cap += n` written for `cap = n`.
AfterRead_AddsCap(n) ==
    IF n = 0
    THEN [pos |-> pos, cap |-> cap, read_done |-> TRUE]
    ELSE [pos |-> 0, cap |-> cap + n, read_done |-> read_done]

\* Variant of AfterRead: the test `n == 0` is left out.
AfterRead_NoEof(n) == [pos |-> 0, cap |-> n, read_done |-> read_done]

\* Lines 89-94: the fields after a read of n bytes.
AfterRead(n) ==
    IF n = 0
    THEN [pos |-> pos, cap |-> cap, read_done |-> TRUE]
    ELSE [pos |-> 0, cap |-> n, read_done |-> read_done]

\* Variant of WriteWindow: the slice starts at 0, buf[..cap].
WriteWindow_FromStart == SubSeq(buf, 1, cap)

\* Line 101: the slice handed to the writer, buf[pos..cap].
WriteWindow == SubSeq(buf, pos + 1, cap)

\* Variant of AfterWrite: `amt = i` written for `amt += i`.
AfterWrite_SetsAmt(i) == [pos |-> pos + i, amt |-> i]

\* Lines 106-107: the fields after a write of i bytes.
AfterWrite(i) == [pos |-> pos + i, amt |-> amt + i]

\* The counts a read may return: up to the length of the slice and of what
\* the source still holds; 0 when either is empty.
ReadCounts ==
    IF Len(buf) = 0 \/ rd = Len(src)
    THEN {0}
    ELSE 1..Min(Len(buf), Len(src) - rd)

\* The buffer after the reader put the next n bytes of the source in front.
Filled(n) == [i \in 1..Len(buf) |-> IF i <= n THEN src[rd + i] ELSE buf[i]]

\* Variant of UnwrapFails: the fields are never None (nothing is taken
\* out of the Options).
UnwrapFails_Never == FALSE

\* A panic of poll: an unwrap() of a field that is None (lines 86, 87, 99,
\* 100, 115), or the slice buf[pos..cap] of line 101 out of the buffer.
UnwrapFails ==
    CASE pc = "refill" -> NeedRefill /\ ~(buffer = "Some" /\ reader = "Some")
      [] pc = "drain" -> HasData /\ (~(buffer = "Some" /\ writer = "Some")
                                       \/ cap > Len(buf))
      [] pc = "finish" -> Finished /\ writer # "Some"
      [] OTHER -> FALSE

\* History of one I/O call.
Record(op, r) ==
    /\ log' = Append(log, [op |-> op, res |-> r.res, n |-> r.n, err |-> r.err])
    /\ last' = [op |-> op, res |-> r.res, n |-> r.n, err |-> r.err]
    /\ calls' = [calls EXCEPT ![op][r.res] = @ + 1]
    /\ iter_io' = iter_io + 1

\* poll returns v to the caller.
Return(v) ==
    /\ pc' = "idle"
    /\ ret' = v
    /\ results' = [ok |-> results.ok + (IF v.kind = "Ok" THEN 1 ELSE 0),
                   err |-> results.err + (IF v.kind = "Err" THEN 1 ELSE 0)]

\* Variant of TryNbReturn: every error is taken for WouldBlock.
TryNbReturn_Swallows(r) ==
    /\ Return(NotReady)
    /\ UNCHANGED <<owned, buf, fields>>

\* The early return of try_nb! on an Err(e) of the I/O call: NotReady for
\* WouldBlock, Err(e) for any other error; the fields stay as they are.
TryNbReturn(r) ==
    /\ Return(IF r.res = "WouldBlock" THEN NotReady ELSE RetErr(r.err))
    /\ UNCHANGED <<owned, buf, fields>>

\* The caller invokes poll.
PollEnter ==
    /\ pc = "idle"
    /\ polls < MaxPolls
    /\ polls' = polls + 1
    /\ pc' = "refill"
    /\ log' = <<>>
    /\ entry' = Saved
    /\ iter_io' = 0
    /\ UNCHANGED <<env, owned, buf, fields, ret, last, calls, results>>

\* Variant of ReadWouldBlock: WouldBlock is taken for a read of 0 bytes.
ReadWouldBlock_AsEof ==
    /\ pc = "refill" /\ NeedRefill /\ ~UnwrapFails
    /\ Record("read", IoWouldBlock)
    /\ Return(NotReady)
    /\ read_done' = TRUE
    /\ UNCHANGED <<env, owned, buf, pos, cap, amt, entry, polls>>

\* Line 88: the read would block.
ReadWouldBlock ==
    /\ pc = "refill" /\ NeedRefill /\ ~UnwrapFails
    /\ Record("read", IoWouldBlock)
    /\ TryNbReturn(IoWouldBlock)
    /\ UNCHANGED <<env, entry, polls>>

\* Line 88: the read fails.
ReadErr ==
    /\ pc = "refill" /\ NeedRefill /\ ~UnwrapFails
    /\ \E e \in Errs :
        /\ Record("read", IoErr(e))
        /\ TryNbReturn(IoErr(e))
    /\ UNCHANGED <<env, entry, polls>>

\* Lines 88-95: the read returns n bytes.
ReadOk ==
    /\ pc = "refill" /\ NeedRefill /\ ~UnwrapFails
    /\ \E n \in ReadCounts :
        /\ Record("read", IoOk(n))
        /\ buf' = Filled(n)
        /\ rd' = rd + n
        /\ pos' = AfterRead(n).pos
        /\ cap' = AfterRead(n).cap
        /\ read_done' = AfterRead(n).read_done
    /\ pc' = "drain"
    /\ UNCHANGED <<src, sunk, rogue, owned, amt, ret, results, entry, polls>>

\* Line 85: the condition is false, nothing is read.
SkipRefill ==
    /\ pc = "refill" /\ ~NeedRefill
    /\ pc' = "drain"
    /\ UNCHANGED <<env, owned, buf, fields, ret, log, last, calls, results,
                   entry, polls, iter_io>>

\* Line 101: the write would block.
WriteWouldBlock ==
    /\ pc = "drain" /\ HasData /\ ~UnwrapFails
    /\ Record("write", IoWouldBlock)
    /\ TryNbReturn(IoWouldBlock)
    /\ UNCHANGED <<env, entry, polls>>

\* Line 101: the write fails; the writer has accepted nothing.
WriteErr ==
    /\ pc = "drain" /\ HasData /\ ~UnwrapFails
    /\ \E e \in Errs :
        /\ Record("write", IoErr(e))
        /\ TryNbReturn(IoErr(e))
    /\ UNCHANGED <<env, entry, polls>>

\* Variant of WriteZero: the test `i == 0` is left out, the loop goes on.
WriteZero_Ignored ==
    /\ pc = "drain" /\ HasData /\ ~UnwrapFails
    /\ Record("write", IoOk(0))
    /\ pc' = "drain"
    /\ UNCHANGED <<env, owned, buf, fields, ret, results, entry, polls>>

\* Lines 101-104: the write returns 0.
WriteZero ==
    /\ pc = "drain" /\ HasData /\ ~UnwrapFails
    /\ Record("write", IoOk(0))
    /\ Return(RetErr(WriteZeroErr))
    /\ UNCHANGED <<env, owned, buf, fields, entry, polls>>

\* Lines 101-108: the write accepts the first i bytes of the window.
WriteOk ==
    /\ pc = "drain" /\ HasData /\ ~UnwrapFails
    /\ \E i \in 1..Len(WriteWindow) :
        /\ Record("write", IoOk(i))
        /\ sunk' = sunk \o SubSeq(WriteWindow, 1, i)
        /\ pos' = AfterWrite(i).pos
        /\ amt' = AfterWrite(i).amt
    /\ pc' = "drain"
    /\ UNCHANGED <<src, rd, rogue, owned, buf, read_done, cap, ret, results,
                   entry, polls>>

\* Line 98: the while condition is false.
DrainDone ==
    /\ pc = "drain" /\ ~HasData
    /\ pc' = "finish"
    /\ UNCHANGED <<env, owned, buf, fields, ret, log, last, calls, results,
                   entry, polls, iter_io>>

\* Variant of FlushWouldBlock: the fields are taken before the flush.
FlushWouldBlock_Takes ==
    /\ pc = "finish" /\ Finished /\ ~UnwrapFails
    /\ Record("flush", IoWouldBlock)
    /\ Return(NotReady)
    /\ reader' = "None"
    /\ writer' = "None"
    /\ buffer' = "None"
    /\ UNCHANGED <<env, buf, fields, entry, polls>>

\* Line 115: the flush would block.
FlushWouldBlock ==
    /\ pc = "finish" /\ Finished /\ ~UnwrapFails
    /\ Record("flush", IoWouldBlock)
    /\ TryNbReturn(IoWouldBlock)
    /\ UNCHANGED <<env, entry, polls>>

\* Line 115: the flush fails.
FlushErr ==
    /\ pc = "finish" /\ Finished /\ ~UnwrapFails
    /\ \E e \in Errs :
        /\ Record("flush", IoErr(e))
        /\ TryNbReturn(IoErr(e))
    /\ UNCHANGED <<env, entry, polls>>

\* Variant of FlushOk: the fields are handed out without take().
FlushOk_NoTake ==
    /\ pc = "finish" /\ Finished /\ ~UnwrapFails
    /\ Record("flush", IoOk(0))
    /\ Return(RetOk(amt))
    /\ UNCHANGED <<env, owned, buf, fields, entry, polls>>

\* Lines 115-119: the flush succeeds; reader, writer and buffer are taken
\* out of the future and returned with amt.
FlushOk ==
    /\ pc = "finish" /\ Finished /\ ~UnwrapFails
    /\ Record("flush", IoOk(0))
    /\ reader' = "None"
    /\ writer' = "None"
    /\ buffer' = "None"
    /\ Return(RetOk(amt))
    /\ UNCHANGED <<env, buf, fields, entry, polls>>

\* Variant of LoopBack: poll yields at the end of an iteration.
LoopBack_Yields ==
    /\ pc = "finish" /\ ~Finished
    /\ Return(NotReady)
    /\ UNCHANGED <<env, owned, buf, fields, log, last, calls, entry, polls,
                   iter_io>>

\* Lines 114, 121: the condition is false, the loop starts over.
LoopBack ==
    /\ pc = "finish" /\ ~Finished
    /\ pc' = "refill"
    /\ iter_io' = 0
    /\ UNCHANGED <<env, owned, buf, fields, ret, log, last, calls, results,
                   entry, polls>>

\* An unwrap() of None panics: poll ends without a value and without I/O.
PollPanic ==
    /\ pc # "idle" /\ UnwrapFails
    /\ Return(Panicked)
    /\ UNCHANGED <<env, owned, buf, fields, log, last, calls, entry, polls,
                   iter_io>>

Next ==
    \/ PollEnter
    \/ ReadWouldBlock
    \/ ReadErr
    \/ ReadOk
    \/ SkipRefill
    \/ WriteWouldBlock
    \/ WriteErr
    \/ WriteZero
    \/ WriteOk
    \/ DrainDone
    \/ FlushWouldBlock
    \/ FlushErr
    \/ FlushOk
    \/ LoopBack
    \/ PollPanic

Spec == Init /\ [][Next]_vars

\* Line 88 with a reader that breaks the contract of read: it reports one
\* byte more than the slice it was given holds.
ReadOver ==
    /\ pc = "refill" /\ NeedRefill /\ ~UnwrapFails
    /\ Record("read", IoOk(Len(buf) + 1))
    /\ rogue' = TRUE
    /\ pos' = AfterRead(Len(buf) + 1).pos
    /\ cap' = AfterRead(Len(buf) + 1).cap
    /\ read_done' = AfterRead(Len(buf) + 1).read_done
    /\ pc' = "drain"
    /\ UNCHANGED <<src, rd, sunk, owned, buf, amt, ret, results, entry, polls>>

\* Line 101 with a writer that breaks the contract of write: it takes the
\* window and reports one byte more than the window holds.
WriteOver ==
    /\ pc = "drain" /\ HasData /\ ~UnwrapFails
    /\ Record("write", IoOk(Len(WriteWindow) + 1))
    /\ rogue' = TRUE
    /\ sunk' = sunk \o WriteWindow
    /\ pos' = AfterWrite(Len(WriteWindow) + 1).pos
    /\ amt' = AfterWrite(Len(WriteWindow) + 1).amt
    /\ pc' = "drain"
    /\ UNCHANGED <<src, rd, owned, buf, read_done, cap, ret, results, entry,
                   polls>>

\* The task with a reader and a writer that may break their contracts.
NextRogue ==
    \/ Next
    \/ ReadOver
    \/ WriteOver

SpecRogue == Init /\ [][NextRogue]_vars

\* The task polled by a caller that polls again whenever poll returned
\* NotReady, with a reader and a writer that do not fail, that take at least
\* one byte in a write, and that block only while the caller has a poll
\* left: would-block ends after finitely many calls.
LiveReadWouldBlock == polls < MaxPolls /\ ReadWouldBlock
LiveWriteWouldBlock == polls < MaxPolls /\ WriteWouldBlock
LiveFlushWouldBlock == polls < MaxPolls /\ FlushWouldBlock

NextLive ==
    \/ PollEnter
    \/ LiveReadWouldBlock
    \/ ReadOk
    \/ SkipRefill
    \/ LiveWriteWouldBlock
    \/ WriteOk
    \/ DrainDone
    \/ LiveFlushWouldBlock
    \/ FlushOk
    \/ LoopBack
    \/ PollPanic

\* The code of poll runs on once entered, and the caller keeps polling.
LiveSpec == Init /\ [][NextLive]_vars /\ WF_vars(NextLive)

TypeOK ==
    /\ pc \in {"idle", "refill", "drain", "finish"}
    /\ reader \in {"Some", "None"}
    /\ writer \in {"Some", "None"}
    /\ buffer \in {"Some", "None"}
    /\ read_done \in BOOLEAN
    /\ pos \in Nat /\ cap \in Nat /\ amt \in Nat
    /\ rd \in 0..Len(src)
    /\ polls \in 0..MaxPolls
    /\ iter_io \in Nat
    /\ rogue \in BOOLEAN

(***************************************************************************)
(* Properties                                                              *)
(***************************************************************************)
Total(op) == calls[op]["Ok"] + calls[op]["WouldBlock"] + calls[op]["Err"]
AllNone == reader = "None" /\ writer = "None" /\ buffer = "None"
AllSome == reader = "Some" /\ writer = "Some" /\ buffer = "Some"
FlushedOk(l) == l.op = "flush" /\ l.res = "Ok"
ZeroWrite(l) == l.op = "write" /\ l.res = "Ok" /\ l.n = 0
\* The bytes the reader has delivered so far.
Delivered == SubSeq(src, 1, rd)

\* C1: with a buffer of at least one byte, whenever poll has returned
\* success, under any interleaving of would-block results, short reads and
\* short writes, the count it returned is the number of bytes of the source
\* and the sink holds exactly the bytes of the source, in order.
C1_CopyIsComplete ==
    Len(buf) >= 1 =>
        /\ ret.kind = "Ok" => ret.amt = Len(src)
        /\ results.ok >= 1 => sunk = src /\ amt = Len(src)

\* Success after several polls, a blocked write and three short reads.
C1_Witness ==
    /\ ret.kind = "Ok"
    /\ Len(src) >= 3
    /\ Len(buf) = 2
    /\ calls["read"]["Ok"] >= 4
    /\ calls["write"]["WouldBlock"] >= 1
    /\ calls["read"]["WouldBlock"] >= 1

\* C2: poll returns success only when EOF has been seen (read_done), every
\* byte read has been written (pos = cap) and the last I/O call of the task
\* is a flush that succeeded; no read, write or flush follows that flush.
C2_SuccessOnlyAfterFlush ==
    /\ (pc = "idle" /\ ret.kind = "Ok") =>
            log # <<>> /\ FlushedOk(log[Len(log)])
    /\ results.ok >= 1 =>
            /\ read_done
            /\ pos = cap
            /\ FlushedOk(last)
            /\ calls["flush"]["Ok"] = 1

\* Success after data was written, and a poll after the success.
C2_Witness ==
    /\ results.ok = 1
    /\ ret.kind = "Panic"
    /\ amt >= 2

\* C3 as stated: after any completion, success or failure, the reader, the
\* writer and the buffer are returned with the result and the task holds
\* them no longer.
C3_Original ==
    (pc = "idle" /\ ret.kind \in {"Ok", "Err"}) => ret.gave /\ AllNone

\* C3, amended: after success the reader, the writer and the buffer are
\* returned with the count, the task holds them no longer and makes no I/O
\* call again (a later poll panics); after a failure poll returns the error
\* alone and the task still holds all three.
C3_OwnershipOnCompletion ==
    /\ results.ok >= 1 =>
            /\ AllNone
            /\ FlushedOk(last)
            /\ ret.kind \in {"Ok", "Panic"}
            /\ ret.kind = "Ok" => ret.gave
    /\ results.ok = 0 => AllSome
    /\ ret.kind = "Err" => ~ret.gave /\ AllSome

\* A failure with data pending in the buffer.
C3_Witness ==
    /\ pc = "idle"
    /\ ret.kind = "Err"
    /\ pos < cap
    /\ AllSome

\* C4 as stated: over any sequence of polls at most one terminal result,
\* success or failure, is produced.
C4_Original == results.ok + results.err <= 1

\* C4, amended: at most one success is produced and no result of either
\* kind is produced after it; a failure is not final: a poll after it
\* resumes the copy and may produce another failure or the success.
C4_SuccessIsFinal ==
    [][(results.ok >= 1 => results' = results) /\ results'.ok <= 1]_vars

\* A failure, then the success, then a poll that produces nothing.
C4_Witness ==
    /\ results.ok = 1
    /\ results.err >= 1
    /\ ret.kind = "Panic"

\* C5 as stated: a write that reports 0 bytes while pos < cap fails the task
\* with the write-zero error, the sink receives none of the pending bytes,
\* amt is not advanced, and the task makes no I/O call afterwards.
C5_Original ==
    [][/\ (calls'["write"]["Ok"] # calls["write"]["Ok"] /\ ZeroWrite(last')) =>
            /\ pos < cap
            /\ ret' = RetErr(WriteZeroErr)
            /\ sunk' = sunk
            /\ amt' = amt
       /\ ZeroWrite(last) => calls' = calls]_vars

\* C5, amended: a write that reports 0 bytes while pos < cap ends the poll
\* with the write-zero error, the sink receives none of the pending bytes,
\* pos and amt are not advanced, and no I/O call follows in that poll; the
\* next I/O call of the task, if any, is the first of a later poll and is a
\* write again.
C5_WriteZeroFails ==
    [][/\ (calls'["write"]["Ok"] # calls["write"]["Ok"] /\ ZeroWrite(last')) =>
            /\ pos < cap
            /\ pc' = "idle"
            /\ ret' = RetErr(WriteZeroErr)
            /\ sunk' = sunk
            /\ amt' = amt
            /\ pos' = pos /\ cap' = cap
       /\ (ZeroWrite(last) /\ calls' # calls) =>
            /\ log = <<>>
            /\ last'.op = "write"]_vars

\* The write-zero failure with two bytes pending, none of them in the sink.
C5_Witness ==
    /\ pc = "idle"
    /\ ret = RetErr(WriteZeroErr)
    /\ ZeroWrite(last)
    /\ cap - pos = 2
    /\ sunk = <<>>

\* C6: a poll whose first I/O call returns would-block returns NotReady and
\* leaves pos, cap, read_done and amt as they were when it was entered.
C6_SuspensionKeepsState ==
    (pc = "idle" /\ log # <<>> /\ log[1].res = "WouldBlock") =>
        /\ Saved = entry
        /\ ret = NotReady
        /\ Len(log) = 1

\* The third poll in a row that a write blocks with data pending.
C6_Witness ==
    /\ pc = "idle"
    /\ ret = NotReady
    /\ last.op = "write"
    /\ calls["write"]["WouldBlock"] >= 3
    /\ pos < cap

\* The source reported EOF before it delivered a byte.
EofFirst == read_done /\ rd = 0

\* C7: when the source reports EOF on its first read, no write call is ever
\* made, the sink stays empty, the poll does not end before it has called
\* flush, a flush that succeeds makes poll return success with count 0, and
\* exactly one flush has succeeded when success is returned (the only flush
\* call when no flush blocked or failed).
C7_EmptySource ==
    EofFirst =>
        /\ Total("write") = 0
        /\ sunk = <<>>
        /\ amt = 0
        /\ pc = "idle" => last.op = "flush"
        /\ FlushedOk(last) => results.ok = 1
        /\ ret.kind = "Ok" => ret.amt = 0
        /\ results.ok >= 1 =>
                /\ calls["flush"]["Ok"] = 1
                /\ Total("flush") = 1 + calls["flush"]["WouldBlock"]
                                      + calls["flush"]["Err"]

\* An empty source copied in one poll with one flush.
C7_Witness ==
    /\ Len(src) = 0
    /\ Len(buf) >= 1
    /\ ret = RetOk(0)
    /\ polls = 1
    /\ Total("flush") = 1
    /\ Total("read") = 1

\* C8 as stated: poll returns NotReady only when a read or a write would
\* block.
C8_Original ==
    (pc = "idle" /\ ret.kind = "NotReady") =>
        last.res = "WouldBlock" /\ last.op \in {"read", "write"}

\* C8, amended: poll returns NotReady only when the I/O call it has just
\* made, a read, a write or the flush, would block.
C8_SuspendsOnlyOnWouldBlock ==
    (pc = "idle" /\ ret.kind = "NotReady") =>
        /\ log # <<>>
        /\ log[Len(log)].res = "WouldBlock"
        /\ log[Len(log)] = last
        /\ last.op \in {"read", "write", "flush"}

\* Suspended on a flush that would block, after data was copied.
C8_Witness ==
    /\ pc = "idle"
    /\ ret = NotReady
    /\ last.op = "flush"
    /\ amt >= 1

\* C9: an I/O call that fails with an error other than would-block is the
\* last I/O call of its poll, and the poll returns exactly that error.
C9_ErrorsPropagate ==
    /\ \A i \in 1..Len(log) :
            log[i].res = "Err" =>
                /\ i = Len(log)
                /\ pc = "idle"
                /\ ret = RetErr(log[i].err)
    /\ (pc = "idle" /\ ret.kind = "Err" /\ ret.err # WriteZeroErr) =>
            /\ log # <<>>
            /\ log[Len(log)].res = "Err"
            /\ log[Len(log)].err = ret.err

\* A write failed with E2 after a read and a write in the same poll.
C9_Witness ==
    /\ pc = "idle"
    /\ ret = RetErr("E2")
    /\ last.op = "write"
    /\ Len(log) >= 3

\* C10: in every state the bytes the sink has accepted are a prefix of the
\* bytes the source has delivered.
C10_SinkIsPrefix ==
    /\ Len(sunk) <= rd
    /\ sunk = SubSeq(Delivered, 1, Len(sunk))

\* A failed task with part of the delivered bytes in the sink.
C10_Witness ==
    /\ pc = "idle"
    /\ ret.kind = "Err"
    /\ Len(sunk) >= 1
    /\ Len(sunk) < rd

WriteBlocked(l) == l.op = "write" /\ l.res = "WouldBlock"
FlushBlocked(l) == l.op = "flush" /\ l.res = "WouldBlock"
\* The step is a call of op.
Calls(op) == calls'[op] # calls[op]

\* C11: after a write has suspended with would-block while pos < cap, the
\* buffer, pos and cap stay as they are until the next I/O call of the
\* task, and that call is a write (of the same window buf[pos..cap)), never
\* a read.
C11_ResumesAtWrite ==
    [][WriteBlocked(last) =>
            /\ pos < cap
            /\ buf' = buf
            /\ cap' = cap
            /\ calls' = calls => pos' = pos
            /\ calls' # calls => Calls("write") /\ last'.op = "write"]_vars

\* A poll resumed after a blocked write; its first I/O call wrote the
\* second byte of the window.
C11_Witness ==
    /\ calls["write"]["WouldBlock"] >= 1
    /\ Len(log) = 1
    /\ log[1].op = "write"
    /\ log[1].res = "Ok"
    /\ polls >= 2
    /\ pos = 2
    /\ sunk = <<1, 2>>

\* C12: as long as no read has returned more than the length of the buffer
\* and no write more than the bytes it was offered, 0 <= pos <= cap <=
\* length of the buffer.
C12_WindowInBuffer ==
    ~rogue => 0 <= pos /\ pos <= cap /\ cap <= Len(buf)

\* A full buffer half written, with a reader and a writer that could have
\* broken their contracts and have not.
C12_Witness ==
    /\ ~rogue
    /\ Len(buf) = 2
    /\ cap = 2
    /\ pos = 1
    /\ rd >= 3

\* C13: read_done becomes true only in a read that returns 0 bytes, never
\* becomes false again, and no read is called once it is true.
C13_ReadDoneIsFinal ==
    [][/\ read_done' # read_done =>
            /\ read_done'
            /\ Calls("read")
            /\ last'.op = "read" /\ last'.res = "Ok" /\ last'.n = 0
       /\ read_done => read_done' /\ ~Calls("read")]_vars

\* EOF was seen, the flush blocked, and later polls went on to the flush.
C13_Witness ==
    /\ read_done
    /\ rd >= 1
    /\ calls["flush"]["WouldBlock"] >= 2
    /\ calls["read"]["Ok"] = 2

\* C14: amt never decreases, and in every state it is the number of bytes
\* the writer has reported as written (amt stays far below 2^64).
C14_AmtCountsWritten ==
    /\ [](amt = Len(sunk))
    /\ [][/\ amt' >= amt
          /\ Calls("write") /\ last'.res = "Ok" => amt' = amt + last'.n
          /\ ~Calls("write") => amt' = amt]_vars

\* Three bytes written in three writes.
C14_Witness ==
    /\ amt = 3
    /\ calls["write"]["Ok"] = 3
    /\ last.op = "write"

\* C15: when the loop of poll starts another iteration, the iteration that
\* ends has made at least one I/O call; an iteration without I/O ends the
\* poll.
C15_NoIdleIteration ==
    [][(pc = "finish" /\ pc' = "refill") => iter_io >= 1]_vars

\* A second iteration of the loop within one poll.
C15_Witness ==
    /\ pc = "refill"
    /\ Len(log) >= 2
    /\ iter_io = 0
    /\ polls = 1

\* C16: every write call is given a non-empty slice (pos < cap), so the
\* write-zero error is returned only with bytes pending, never before a byte
\* was read and never with the buffer drained.
C16_WritesNonEmpty ==
    [][/\ Calls("write") => pos < cap /\ Len(WriteWindow) >= 1
       /\ (results'.err # results.err /\ ret'.err = WriteZeroErr) =>
            /\ pos < cap
            /\ pos' < cap'
            /\ rd >= 1
            /\ Calls("write")]_vars

\* The write-zero error with one byte written and one pending.
C16_Witness ==
    /\ pc = "idle"
    /\ ret = RetErr(WriteZeroErr)
    /\ pos = 1
    /\ cap = 2

\* C17: in every state the bytes read from the source are those written to
\* the sink followed by those pending in buf[pos..cap): rd = amt + (cap -
\* pos); a read is called only when pos = cap.
C17_ReadOnceWrittenOnce ==
    /\ [](/\ rd = amt + (cap - pos)
          /\ Delivered = sunk \o WriteWindow)
    /\ [][Calls("read") => pos = cap]_vars

\* A refill after the buffer was drained, with the new bytes pending.
C17_Witness ==
    /\ rd = 3
    /\ amt = 2
    /\ cap - pos = 1
    /\ calls["read"]["Ok"] = 2

\* C18: with a finite source, writes that take at least one byte, no
\* failure, and would-block only finitely often, a task that is polled
\* again and again eventually returns success.
C18_EventuallySucceeds == <>(results.ok = 1)

\* Success after the read, the write and the flush each blocked once.
C18_Witness ==
    /\ results.ok = 1
    /\ Len(src) >= 2
    /\ amt = Len(src)
    /\ calls["read"]["WouldBlock"] >= 1
    /\ calls["write"]["WouldBlock"] >= 1
    /\ calls["flush"]["WouldBlock"] >= 1

\* C19: a flush that would block ends the poll with NotReady and leaves
\* pos, cap, read_done and amt as they are and the reader, the writer and
\* the buffer in the task; from then on, until a flush succeeds or fails,
\* the fields and the buffer stay unchanged and the only I/O call the task
\* makes is the flush.
C19_ResumesAtFlush ==
    [][/\ (Calls("flush") /\ FlushBlocked(last')) =>
            /\ pc' = "idle"
            /\ ret' = NotReady
            /\ fields' = fields
            /\ reader' = "Some" /\ writer' = "Some" /\ buffer' = "Some"
       /\ FlushBlocked(last) =>
            /\ AllSome
            /\ fields' = fields
            /\ buf' = buf
            /\ calls' # calls => Calls("flush") /\ last'.op = "flush"]_vars

\* Success in a poll that only flushed, after the flush blocked twice.
C19_Witness ==
    /\ results.ok = 1
    /\ ret.kind = "Ok"
    /\ calls["flush"]["WouldBlock"] >= 2
    /\ Len(log) = 1
    /\ amt >= 1

====
